---- MODULE Spec2Model ----
(***************************************************************************)
(* The game engine of HIV Defense Chess: the React component HIVChessBoard *)
(* of hiv-chess-rules.md, as a state machine.  The component's useState    *)
(* cells are the variables; its event handlers (handleSquareClick, the     *)
(* ability buttons' onClick) are the actions; the useEffect that accrues   *)
(* energy runs with the render that follows a change of currentPlayer, so  *)
(* it is part of the step that changes currentPlayer.                      *)
(***************************************************************************)
EXTENDS Integers, FiniteSets, Sequences, TLC

VARIABLES board, selectedPiece, energyPoints, currentPlayer, hiddenPieces,
          taggedPieces, mutatedPieces, turnCount, selectedAbility,
          cooldown, probe

vars == <<board, selectedPiece, energyPoints, currentPlayer, hiddenPieces,
          taggedPieces, mutatedPieces, turnCount, selectedAbility,
          cooldown, probe>>

gameVars == <<board, selectedPiece, energyPoints, currentPlayer, hiddenPieces,
              taggedPieces, mutatedPieces, turnCount, selectedAbility,
              cooldown>>

\* ------------------------------------------------------------------ bounds

\* Committed moves stop once turnCount has reached MaxTurn.
MaxTurn == 4

\* The user selects squares among the first MaxClick squares of ClickList.
MaxClick == 5

\* The last turn reached in the games played without abilities.
MaxTurnEndgame == 9

\* The last turn reached in the games on the pathogen's left corner.
MaxTurnScan == 3

\* ------------------------------------------------------- program constants

BoardSize == 8

InitialEnergy == 10

energyPerTurn == 2

InitialTurn == 1

\* "HIV pieces can mutate once per 3 turns"
MutationCooldown == 3

Null == "null"

Rows == 0 .. (BoardSize - 1)

Cols == 0 .. (BoardSize - 1)

Squares == Rows \X Cols

\* The squares the user selects, most telling first: the defender's vector
\* (knight) and the square it jumps to, the pathogen's vector, factory and a
\* particle next to them, then an empty square of the centre, the square the
\* pathogen's vector jumps to, and the pathogen complex and the defender's
\* factory and particle.
ClickList ==
  << <<7, 1>>, <<5, 0>>, <<0, 1>>, <<0, 0>>, <<1, 1>>,
     <<3, 3>>, <<2, 0>>, <<0, 3>>, <<7, 0>>, <<6, 0>>, <<1, 0>> >>

ClickSquares ==
  {ClickList[i] : i \in 1 .. (IF MaxClick < Len(ClickList) THEN MaxClick ELSE Len(ClickList))}

Players == {"white", "black"}

\* ------------------------------------------------------------ piece catalog

PIECES ==
  [ bk |-> {"stability_control", "stealth_mode"},
    bq |-> {"surface_shift", "binding_attack", "protein_shift"},
    bb |-> {"protein_synthesis", "replication"},
    bn |-> {"mutation_burst", "pattern_change"},
    br |-> {"create_pawn", "protein_synthesis"},
    bp |-> {"stealth_mode", "vesicle_jump"},
    wk |-> {"detection_pulse", "memory_formation"},
    wq |-> {"mass_detection", "binding_block"},
    wb |-> {"coordinate_response", "mark_target"},
    wn |-> {"tag_piece", "reveal_hidden"},
    wr |-> {"rapid_response", "area_scan"},
    wp |-> {"basic_attack", "detection"} ]

PieceCodes == DOMAIN PIECES

Abilities == UNION {PIECES[p] : p \in PieceCodes}

\* The two characters of a piece code: faction letter, class letter.
Chars ==
  [ bk |-> <<"b", "k">>, bq |-> <<"b", "q">>, bb |-> <<"b", "b">>,
    bn |-> <<"b", "n">>, br |-> <<"b", "r">>, bp |-> <<"b", "p">>,
    wk |-> <<"w", "k">>, wq |-> <<"w", "q">>, wb |-> <<"w", "b">>,
    wn |-> <<"w", "n">>, wr |-> <<"w", "r">>, wp |-> <<"w", "p">> ]

\* piece.charAt(i)
charAt(piece, i) == Chars[piece][i + 1]

\* currentPlayer.charAt(0)
playerChar(player) == IF player = "white" THEN "w" ELSE "b"

BackRank == <<"r", "n", "b", "q", "k", "b", "n", "r">>

INITIAL_BOARD ==
  [r \in Rows |-> [c \in Cols |->
     IF r = 0 THEN CHOOSE p \in PieceCodes : Chars[p] = <<"b", BackRank[c + 1]>>
     ELSE IF r = 1 THEN "bp"
     ELSE IF r = 6 THEN "wp"
     ELSE IF r = 7 THEN CHOOSE p \in PieceCodes : Chars[p] = <<"w", BackRank[c + 1]>>
     ELSE Null]]

\* Math.abs
Abs(x) == IF x < 0 THEN -x ELSE x

\* ---------------------------------------------------------- move legality

\* isValidMove with the vector's second jump shape left out.
isValidMoveOneJump(from, to, piece) ==
  LET dx == Abs(to.col - from.col)
      dy == Abs(to.row - from.row)
      class == charAt(piece, 1)
  IN  IF class = "k" THEN dx <= 1 /\ dy <= 1
      ELSE IF class = "q" THEN dx = dy \/ dx = 0 \/ dy = 0
      ELSE IF class = "b" THEN dx = dy
      ELSE IF class = "n" THEN dx = 2 /\ dy = 1
      ELSE IF class = "r" THEN dx = 0 \/ dy = 0
      ELSE IF class = "p" THEN
        LET direction == IF charAt(piece, 0) = "w" THEN -1 ELSE 1
        IN  dx = 0 /\ (dy = 1 * direction
                       \/ (from.row = (IF direction = 1 THEN 1 ELSE 6)
                           /\ dy = 2 * direction))
      ELSE FALSE

isValidMove(from, to, piece) ==
  LET dx == Abs(to.col - from.col)
      dy == Abs(to.row - from.row)
      class == charAt(piece, 1)
  IN  IF class = "k" THEN dx <= 1 /\ dy <= 1
      ELSE IF class = "q" THEN dx = dy \/ dx = 0 \/ dy = 0
      ELSE IF class = "b" THEN dx = dy
      ELSE IF class = "n" THEN (dx = 2 /\ dy = 1) \/ (dx = 1 /\ dy = 2)
      ELSE IF class = "r" THEN dx = 0 \/ dy = 0
      ELSE IF class = "p" THEN
        LET direction == IF charAt(piece, 0) = "w" THEN -1 ELSE 1
        IN  dx = 0 /\ (dy = 1 * direction
                       \/ (from.row = (IF direction = 1 THEN 1 ELSE 6)
                           /\ dy = 2 * direction))
      ELSE FALSE

\* ---------------------------------------------------------------- abilities

\* getAbilityCost with the tag_piece entry missing from the table.
getAbilityCostNoTag(ability) ==
  IF ability = "stealth_mode" THEN 5
  ELSE IF ability = "mutation_burst" THEN 7
  ELSE IF ability = "surface_shift" THEN 4
  ELSE IF ability = "protein_synthesis" THEN 6
  ELSE 1

getAbilityCost(ability) ==
  IF ability = "stealth_mode" THEN 5
  ELSE IF ability = "mutation_burst" THEN 7
  ELSE IF ability = "surface_shift" THEN 4
  ELSE IF ability = "protein_synthesis" THEN 6
  ELSE IF ability = "tag_piece" THEN 3
  ELSE 1

\* `${position.row},${position.col}`: the key of a square in the status sets.
squareKey(row, col) == <<row, col>>

\* The branch with a mutation_burst case that also conceals the square.
applyAbilityMutationConceals(ability, position) ==
  LET cost == getAbilityCost(ability)
      key == squareKey(position.row, position.col)
  IN  /\ hiddenPieces' = IF ability \in {"stealth_mode", "mutation_burst"}
                         THEN hiddenPieces \cup {key} ELSE hiddenPieces
      /\ mutatedPieces' = IF ability = "mutation_burst"
                          THEN mutatedPieces \cup {key} ELSE mutatedPieces
      /\ taggedPieces' = IF ability = "tag_piece"
                         THEN taggedPieces \cup {key} ELSE taggedPieces
      /\ energyPoints' = [energyPoints EXCEPT ![currentPlayer] = @ - cost]

\* The branch of activateAbility that runs when the pool covers the cost.
applyAbility(ability, position) ==
  LET cost == getAbilityCost(ability)
      key == squareKey(position.row, position.col)
  IN  /\ hiddenPieces' = IF ability = "stealth_mode"
                         THEN hiddenPieces \cup {key} ELSE hiddenPieces
      /\ mutatedPieces' = IF ability = "mutation_burst"
                          THEN mutatedPieces \cup {key} ELSE mutatedPieces
      /\ taggedPieces' = IF ability = "tag_piece"
                         THEN taggedPieces \cup {key} ELSE taggedPieces
      /\ energyPoints' = [energyPoints EXCEPT ![currentPlayer] = @ - cost]

\* activateAbility without the comparison of the pool with the cost.
activateAbilityUnchecked(ability, piece, position) ==
  applyAbility(ability, position)

\* activateAbility with the status sets written before the pool is compared.
activateAbilityEffectFirst(ability, piece, position) ==
  LET cost == getAbilityCost(ability)
      key == squareKey(position.row, position.col)
  IN  /\ hiddenPieces' = IF ability = "stealth_mode"
                         THEN hiddenPieces \cup {key} ELSE hiddenPieces
      /\ mutatedPieces' = IF ability = "mutation_burst"
                          THEN mutatedPieces \cup {key} ELSE mutatedPieces
      /\ taggedPieces' = IF ability = "tag_piece"
                         THEN taggedPieces \cup {key} ELSE taggedPieces
      /\ energyPoints' = IF energyPoints[currentPlayer] >= cost
                         THEN [energyPoints EXCEPT ![currentPlayer] = @ - cost]
                         ELSE energyPoints

activateAbility(ability, piece, position) ==
  LET cost == getAbilityCost(ability)
  IN  IF energyPoints[currentPlayer] >= cost
      THEN applyAbility(ability, position)
      ELSE UNCHANGED <<hiddenPieces, mutatedPieces, taggedPieces, energyPoints>>

\* The energy effect paying both factions at each turnover.
energyEffectBoth(prev, player) ==
  [p \in DOMAIN prev |-> prev[p] + energyPerTurn]

\* The useEffect on [currentPlayer]: the pool of the faction now to move grows.
energyEffect(prev, player) ==
  [prev EXCEPT ![player] = prev[player] + energyPerTurn]

\* ------------------------------------------------------------------- state

NoSelection == [row |-> -1, col |-> -1, piece |-> Null]

NoProbe == [from |-> <<-1, -1>>, to |-> <<-1, -1>>, piece |-> Null,
            judged |-> FALSE, result |-> FALSE]

InitGame ==
  /\ board = INITIAL_BOARD
  /\ selectedPiece = NoSelection
  /\ energyPoints = energyEffect([p \in Players |-> InitialEnergy], "white")
  /\ currentPlayer = "white"
  /\ hiddenPieces = {}
  /\ taggedPieces = {}
  /\ mutatedPieces = {}
  /\ turnCount = InitialTurn
  /\ selectedAbility = Null
  /\ cooldown = {}

Init ==
  /\ InitGame
  /\ probe = NoProbe

\* ----------------------------------------------------------------- actions

\* A toggle that hands the turn back to the same faction.
otherPlayerSame(player) == player

otherPlayer(player) == IF player = "white" THEN "black" ELSE "white"

\* commitMove without setTurnCount.
commitMoveKeepsTurn(row, col) ==
  /\ board' = [board EXCEPT ![row][col] = selectedPiece.piece,
                            ![selectedPiece.row][selectedPiece.col] = Null]
  /\ currentPlayer' = otherPlayer(currentPlayer)
  /\ turnCount' = turnCount
  /\ energyPoints' = energyEffect(energyPoints, currentPlayer')

\* commitMove without newBoard[selectedPiece.row][selectedPiece.col] = null.
commitMoveKeepsOrigin(row, col) ==
  /\ board' = [board EXCEPT ![row][col] = selectedPiece.piece]
  /\ currentPlayer' = otherPlayer(currentPlayer)
  /\ turnCount' = turnCount + 1
  /\ energyPoints' = energyEffect(energyPoints, currentPlayer')

\* The committed-move branch of handleSquareClick, with the energy effect of
\* the render that follows the change of currentPlayer.
commitMove(row, col) ==
  /\ board' = [board EXCEPT ![row][col] = selectedPiece.piece,
                            ![selectedPiece.row][selectedPiece.col] = Null]
  /\ currentPlayer' = otherPlayer(currentPlayer)
  /\ turnCount' = turnCount + 1
  /\ energyPoints' = energyEffect(energyPoints, currentPlayer')

\* A refused move that still passes the turn.
rejectMovePassesTurn(row, col) ==
  /\ currentPlayer' = otherPlayer(currentPlayer)
  /\ turnCount' = turnCount
  /\ UNCHANGED <<board, energyPoints>>

\* The other branch: isValidMove refused, nothing is set but the selection.
rejectMove(row, col) ==
  UNCHANGED <<board, currentPlayer, turnCount, energyPoints>>

\* History, not program state: for each square whose present piece has had
\* mutation_burst activated on it, the turn the running cooldown started.
cooldownAfterAbility(ability, row, col) ==
  LET here == {e \in cooldown : e.row = row /\ e.col = col}
  IN  IF /\ ability = "mutation_burst"
         /\ energyPoints[currentPlayer] >= getAbilityCost(ability)
         /\ \A e \in here : turnCount - e.turn >= MutationCooldown
      THEN (cooldown \ here) \cup {[row |-> row, col |-> col, turn |-> turnCount]}
      ELSE cooldown

\* The record follows the piece that moves and goes with a piece that is taken.
cooldownAfterMove(row, col) ==
  LET here == {e \in cooldown : e.row = row /\ e.col = col}
      origin == {e \in cooldown : e.row = selectedPiece.row /\ e.col = selectedPiece.col}
  IN  (cooldown \ (here \cup origin))
        \cup (IF row = selectedPiece.row /\ col = selectedPiece.col THEN {}
              ELSE {[row |-> row, col |-> col, turn |-> e.turn] : e \in origin})

\* A colour test that takes every piece for the defender's.
pieceColorAlwaysWhite(piece) == "white"

\* const pieceColor = piece.charAt(0) === 'w' ? 'white' : 'black'.
pieceColor(piece) == IF charAt(piece, 0) = "w" THEN "white" ELSE "black"

\* A handler that lets a move through while an ability is pending: the
\* ability branch is taken only when the selected square holds a piece.
abilityBranchTakenOnPieceOnly(row, col) ==
  selectedAbility # Null /\ board[row][col] # Null

\* if (selectedAbility) { ... return; }: the ability branch is taken
\* whatever the selected square holds.
abilityBranchTaken(row, col) == selectedAbility # Null

\* The target test without the comparison of the faction letters.
targetIsOwnPieceAnyPiece(piece) == piece # Null

\* The condition under which a pending ability is applied to the clicked
\* square: piece && piece.charAt(0) === currentPlayer.charAt(0).
targetIsOwnPiece(piece) ==
  /\ piece # Null
  /\ charAt(piece, 0) = playerChar(currentPlayer)

handleSquareClick(row, col) ==
  LET piece == board[row][col]
  IN  /\ IF abilityBranchTaken(row, col) THEN
           /\ IF targetIsOwnPiece(piece)
              THEN /\ activateAbility(selectedAbility, piece, [row |-> row, col |-> col])
                   /\ selectedAbility' = Null
                   /\ cooldown' = cooldownAfterAbility(selectedAbility, row, col)
              ELSE UNCHANGED <<hiddenPieces, mutatedPieces, taggedPieces,
                               energyPoints, selectedAbility, cooldown>>
           /\ UNCHANGED <<board, selectedPiece, currentPlayer, turnCount>>
         ELSE IF selectedPiece = NoSelection /\ piece # Null THEN
           /\ IF pieceColor(piece) = currentPlayer
              THEN selectedPiece' = [row |-> row, col |-> col, piece |-> piece]
              ELSE UNCHANGED selectedPiece
           /\ UNCHANGED <<board, energyPoints, currentPlayer, hiddenPieces,
                          taggedPieces, mutatedPieces, turnCount, selectedAbility,
                          cooldown>>
         ELSE IF selectedPiece # NoSelection THEN
           /\ IF isValidMove(selectedPiece, [row |-> row, col |-> col], selectedPiece.piece)
              THEN /\ commitMove(row, col)
                   /\ cooldown' = cooldownAfterMove(row, col)
              ELSE /\ rejectMove(row, col)
                   /\ UNCHANGED cooldown
           /\ selectedPiece' = NoSelection
           /\ UNCHANGED <<hiddenPieces, taggedPieces, mutatedPieces, selectedAbility>>
         ELSE UNCHANGED <<board, selectedPiece, energyPoints, currentPlayer,
                          hiddenPieces, taggedPieces, mutatedPieces, turnCount,
                          selectedAbility, cooldown>>
      /\ UNCHANGED probe

\* Ability buttons rendered for every ability of the catalogue.
selectAbilityAnyButton(ability) ==
  /\ selectedPiece # NoSelection
  /\ selectedAbility' = ability
  /\ UNCHANGED <<board, selectedPiece, energyPoints, currentPlayer, hiddenPieces,
                 taggedPieces, mutatedPieces, turnCount, cooldown, probe>>

\* onClick of an ability button: rendered only for the selected piece's abilities.
selectAbility(ability) ==
  /\ selectedPiece # NoSelection
  /\ ability \in PIECES[selectedPiece.piece]
  /\ selectedAbility' = ability
  /\ UNCHANGED <<board, selectedPiece, energyPoints, currentPlayer, hiddenPieces,
                 taggedPieces, mutatedPieces, turnCount, cooldown, probe>>

\* A game is followed up to turn MaxTurn.
Next ==
  \/ \E sq \in ClickSquares :
       /\ handleSquareClick(sq[1], sq[2])
       /\ turnCount' <= MaxTurn
  \/ \E ability \in Abilities : selectAbility(ability)

Spec == Init /\ [][Next]_vars

\* ------------------------------------------ games played without abilities

\* The cells selected in the games without abilities: the immune back rank
\* and the pathogen's factory in the corner.
EndgameSquares == {<<0, 0>>} \cup {<<BoardSize - 1, col>> : col \in Cols}

\* These games are followed up to turn MaxTurnEndgame.
NextEndgame ==
  \E sq \in EndgameSquares :
    /\ handleSquareClick(sq[1], sq[2])
    /\ turnCount' <= MaxTurnEndgame

SpecEndgame == Init /\ [][NextEndgame]_vars

\* ------------------------------------- games on the pathogen's left corner

\* The cells selected in the games where an immune rook goes up the first
\* file to the pathogen's corner: the rook, the two particles and the
\* mutator next to them, and the mutator's destination.
ScanSquares == {<<7, 0>>, <<1, 0>>, <<1, 1>>, <<0, 1>>, <<2, 0>>}

\* These games are followed up to turn MaxTurnScan.
NextScan ==
  \/ \E sq \in ScanSquares :
       /\ handleSquareClick(sq[1], sq[2])
       /\ turnCount' <= MaxTurnScan
  \/ \E ability \in Abilities : selectAbility(ability)

SpecScan == Init /\ [][NextScan]_vars

\* ------------------------------------------- isValidMove as a pure function

\* Every origin, destination and piece code of the board, not yet judged.
InitValid ==
  /\ InitGame
  /\ probe \in [from : Squares, to : Squares, piece : PieceCodes,
                 judged : {FALSE}, result : {FALSE}]

\* isValidMove applied to the drawn origin, destination and piece code.
probeValidMove ==
  /\ ~probe.judged
  /\ probe' = [probe EXCEPT !.judged = TRUE, !.result =
                 isValidMove([row |-> probe.from[1], col |-> probe.from[2]],
                             [row |-> probe.to[1], col |-> probe.to[2]],
                             probe.piece)]
  /\ UNCHANGED gameVars

NextValid == probeValidMove

SpecValid == InitValid /\ [][NextValid]_vars

\* ------------------------------------------------------------------ claims
\* A claim about what a handler does from a state is stated on the state:
\* ~ENABLED (handler /\ ~Post) says that no run of the handler from the state
\* ends outside Post.

\* The square (row, col) holds a piece of the faction to move.
OwnPieceAt(row, col) ==
  /\ board[row][col] # Null
  /\ charAt(board[row][col], 0) = playerChar(currentPlayer)

\* Selecting (row, col) commits a legal move: no ability pending, a piece of
\* the faction to move selected, the destination accepted by isValidMove.
MoveCommits(row, col) ==
  /\ selectedAbility = Null
  /\ selectedPiece # NoSelection
  /\ charAt(selectedPiece.piece, 0) = playerChar(currentPlayer)
  /\ isValidMove(selectedPiece, [row |-> row, col |-> col], selectedPiece.piece)

\* C1: a square selection that commits a legal move (no ability pending, a
\* piece of the faction to move selected, isValidMove accepts the destination)
\* raises turnCount by exactly 1 and hands the turn to the other faction;
\* every other square selection and every arming of an ability leaves
\* turnCount and currentPlayer as they were.
C1_TurnAdvancesExactlyOnMove ==
  /\ \A sq \in ClickSquares :
       IF MoveCommits(sq[1], sq[2])
       THEN ~ENABLED (/\ handleSquareClick(sq[1], sq[2])
                      /\ ~(/\ turnCount' = turnCount + 1
                           /\ currentPlayer' \in Players \ {currentPlayer}))
       ELSE ~ENABLED (/\ handleSquareClick(sq[1], sq[2])
                      /\ ~UNCHANGED <<turnCount, currentPlayer>>)
  /\ \A a \in Abilities :
       ~ENABLED (selectAbility(a) /\ ~UNCHANGED <<turnCount, currentPlayer>>)

\* Two moves have been committed: the defender is to move again, at turn 3.
C1_Witness ==
  /\ turnCount = 3
  /\ currentPlayer = "white"
  /\ selectedPiece = NoSelection

\* C2: no energy pool is ever negative, and no handler changes a status set or
\* lowers a pool from a state where no ability is pending or the pool of the
\* faction to move is below the pending ability's cost.
C2_EnergyNeverNegative ==
  /\ \A p \in Players : energyPoints[p] >= 0
  /\ (selectedAbility = Null
      \/ energyPoints[currentPlayer] < getAbilityCost(selectedAbility))
     => /\ \A sq \in ClickSquares :
             ~ENABLED (/\ handleSquareClick(sq[1], sq[2])
                       /\ \/ hiddenPieces' # hiddenPieces
                          \/ taggedPieces' # taggedPieces
                          \/ mutatedPieces' # mutatedPieces
                          \/ \E p \in Players : energyPoints'[p] < energyPoints[p])
        /\ \A a \in Abilities :
             ~ENABLED (/\ selectAbility(a)
                       /\ \/ hiddenPieces' # hiddenPieces
                          \/ taggedPieces' # taggedPieces
                          \/ mutatedPieces' # mutatedPieces
                          \/ \E p \in Players : energyPoints'[p] < energyPoints[p])

\* The defender has spent its whole first pool, part of it on tags.
C2_Witness ==
  /\ turnCount = 1
  /\ taggedPieces # {}
  /\ energyPoints["white"] = 0

\* C3: once mutation_burst has been activated on a piece, a further
\* mutation_burst activation on that piece, fewer than MutationCooldown turns
\* after the first, changes neither the mutated set nor the energy pools.
C3_MutationCooldownRejects ==
  \A e \in cooldown :
    (selectedAbility = "mutation_burst" /\ turnCount - e.turn < MutationCooldown)
    => ~ENABLED (/\ handleSquareClick(e.row, e.col)
                 /\ ~UNCHANGED <<mutatedPieces, energyPoints>>)

\* C4: for a particle, isValidMove accepts exactly one row ahead in the same
\* column (row decreasing for white, increasing for black), or two rows ahead
\* from the starting rank (row 6 for white, row 1 for black).
C4_ParticleForwardOnly ==
  (probe.judged /\ charAt(probe.piece, 1) = "p")
  => LET white == charAt(probe.piece, 0) = "w"
         ahead == IF white THEN -1 ELSE 1
         start == IF white THEN 6 ELSE 1
         fromRow == probe.from[1]
         toRow == probe.to[1]
     IN  probe.result <=>
           /\ probe.to[2] = probe.from[2]
           /\ \/ toRow = fromRow + ahead
              \/ (fromRow = start /\ toRow = fromRow + 2 * ahead)

\* C5: for core, complex, coordinator, vector and factory pieces isValidMove
\* is true exactly when the class rule on the absolute deltas holds, whatever
\* stands on the destination square or between origin and destination.
C5_ClassTable ==
  (probe.judged /\ charAt(probe.piece, 1) \in {"k", "q", "b", "n", "r"})
  => LET class == charAt(probe.piece, 1)
         cd == probe.to[2] - probe.from[2]
         rd == probe.to[1] - probe.from[1]
         dx == IF cd >= 0 THEN cd ELSE 0 - cd
         dy == IF rd >= 0 THEN rd ELSE 0 - rd
     IN  probe.result <=>
           CASE class = "k" -> dx <= 1 /\ dy <= 1
             [] class = "q" -> dx = dy \/ dx = 0 \/ dy = 0
             [] class = "b" -> dx = dy
             [] class = "n" -> <<dx, dy>> \in {<<2, 1>>, <<1, 2>>}
             [] class = "r" -> dx = 0 \/ dy = 0

\* A factory judged free to cross an occupied square onto an occupied square,
\* or a vector judged free to make the (1,2) jump.
C5_Witness ==
  /\ probe.judged
  /\ probe.result
  /\ \/ /\ probe.piece = "br" /\ probe.from = <<0, 0>> /\ probe.to = <<6, 0>>
        /\ board[1][0] # Null /\ board[6][0] # Null
     \/ /\ probe.piece = "wn" /\ probe.from = <<7, 1>> /\ probe.to = <<5, 0>>

\* C6: with the defender to move, tag_piece pending from a defender vector and
\* the defender's pool covering its cost, selecting a square that holds a
\* concealed pathogen piece adds the square to the tagged set, leaves the
\* concealed set alone and lowers the defender's pool by the tag cost.
C6_TagConcealedEnemy ==
  \A sq \in ClickSquares :
    (/\ currentPlayer = "white"
     /\ selectedAbility = "tag_piece"
     /\ selectedPiece.piece = "wn"
     /\ energyPoints["white"] >= getAbilityCost("tag_piece")
     /\ board[sq[1]][sq[2]] # Null
     /\ charAt(board[sq[1]][sq[2]], 0) = "b"
     /\ squareKey(sq[1], sq[2]) \in hiddenPieces)
    => ~ENABLED (/\ handleSquareClick(sq[1], sq[2])
                 /\ ~(/\ taggedPieces' = taggedPieces \cup {squareKey(sq[1], sq[2])}
                      /\ hiddenPieces' = hiddenPieces
                      /\ energyPoints' =
                           [energyPoints EXCEPT !["white"] =
                              @ - getAbilityCost("tag_piece")]))

\* C7: a square selection made with an ability pending whose cost exceeds the
\* pool of the faction to move changes neither pool, none of the three status
\* sets, nor the board, currentPlayer or turnCount.
C7_InsufficientEnergyRejected ==
  (/\ selectedAbility # Null
   /\ energyPoints[currentPlayer] < getAbilityCost(selectedAbility))
  => \A sq \in ClickSquares :
       ~ENABLED (/\ handleSquareClick(sq[1], sq[2])
                 /\ ~UNCHANGED <<energyPoints, hiddenPieces, taggedPieces,
                                 mutatedPieces, board, currentPlayer, turnCount>>)

\* stealth_mode (cost 5) pending with the pool at 4, and an own piece whose
\* selection runs the activation: it ends with the set and pool as they were.
C7_Witness ==
  /\ selectedAbility = "stealth_mode"
  /\ energyPoints[currentPlayer] = 4
  /\ \E sq \in ClickSquares :
       /\ OwnPieceAt(sq[1], sq[2])
       /\ ENABLED (/\ handleSquareClick(sq[1], sq[2])
                   /\ selectedAbility' = Null
                   /\ UNCHANGED <<energyPoints, hiddenPieces>>)

\* C8: with a piece selected and no ability pending, selecting a destination
\* that isValidMove refuses changes neither the board, the pools, the status
\* sets, currentPlayer nor turnCount, and clears the selection.
C8_IllegalMoveRejected ==
  \A sq \in ClickSquares :
    (/\ selectedAbility = Null
     /\ selectedPiece # NoSelection
     /\ ~isValidMove(selectedPiece, [row |-> sq[1], col |-> sq[2]],
                     selectedPiece.piece))
    => ~ENABLED (/\ handleSquareClick(sq[1], sq[2])
                 /\ ~(/\ UNCHANGED <<board, energyPoints, hiddenPieces, taggedPieces,
                                     mutatedPieces, currentPlayer, turnCount>>
                      /\ selectedPiece' = NoSelection))

\* The pathogen's vector selected and a square two rows down its own column
\* selected next: the handler runs and ends with the selection cleared.
C8_Witness ==
  /\ selectedAbility = Null
  /\ selectedPiece = [row |-> 0, col |-> 1, piece |-> "bn"]
  /\ ENABLED (/\ handleSquareClick(1, 1)
              /\ selectedPiece' = NoSelection
              /\ UNCHANGED <<board, turnCount>>)

\* C9: the defender's pool holds one accrual at the start; each change of
\* currentPlayer adds exactly 2 to the pool of the faction that becomes the
\* mover and leaves the other pool alone; no other step raises a pool.
C9_AccrualOncePerTurnover ==
  /\ energyPoints = [white |-> 10 + 2, black |-> 10]
  /\ [][ IF currentPlayer' # currentPlayer
         THEN /\ energyPoints'[currentPlayer'] = energyPoints[currentPlayer'] + 2
              /\ energyPoints'[currentPlayer] = energyPoints[currentPlayer]
         ELSE \A p \in Players : energyPoints'[p] <= energyPoints[p] ]_vars

\* Three committed moves and nothing spent: three accruals after the first.
C9_Witness ==
  /\ turnCount = 4
  /\ energyPoints = [white |-> 14, black |-> 14]

\* The cost table of the claim.
C10_Cost(ability) ==
  CASE ability = "stealth_mode" -> 5
    [] ability = "mutation_burst" -> 7
    [] ability = "surface_shift" -> 4
    [] ability = "protein_synthesis" -> 6
    [] ability = "tag_piece" -> 3
    [] OTHER -> 1

C12_Count(b, code) ==
  Cardinality({sq \in Squares : b[sq[1]][sq[2]] = code})

C13_StatusOnOccupiedSquares ==
  /\ \A key \in hiddenPieces \cup taggedPieces \cup mutatedPieces :
       board[key[1]][key[2]] # Null
  /\ \A sq \in ClickSquares :
       MoveCommits(sq[1], sq[2])
         => ~ENABLED (/\ handleSquareClick(sq[1], sq[2])
                      /\ squareKey(selectedPiece.row, selectedPiece.col)
                           \in hiddenPieces' \cup taggedPieces' \cup mutatedPieces')

\* C14: from every reachable state some sequence of square selections by the
\* faction to move commits a move and advances the turn. A move is committed
\* only by selecting a piece of the faction to move and then a destination
\* that isValidMove accepts for it, so such a sequence needs what is stated
\* here for the states in which a turn begins (nothing selected): the faction
\* to move has a piece on the board with a destination that isValidMove
\* accepts.
C14_FactionToMoveCanMove ==
  selectedPiece = NoSelection =>
    \E from \in Squares :
      /\ OwnPieceAt(from[1], from[2])
      /\ \E to \in Squares :
           isValidMove([row |-> from[1], col |-> from[2],
                        piece |-> board[from[1]][from[2]]],
                       [row |-> to[1], col |-> to[2]],
                       board[from[1]][from[2]])

\* C15: every rejected activation clears the pending-ability selection: with
\* an ability pending, a square selection that is refused, be it for a pool
\* below the ability's cost or for a square that is empty or holds a piece of
\* the other faction, leaves no ability pending.
C15_RejectionClearsPending ==
  \A sq \in ClickSquares :
    (/\ selectedAbility # Null
     /\ \/ ~OwnPieceAt(sq[1], sq[2])
        \/ energyPoints[currentPlayer] < C10_Cost(selectedAbility))
    => ~ENABLED (/\ handleSquareClick(sq[1], sq[2])
                 /\ selectedAbility' # Null)

\* C16: while an ability is pending, no square selection changes the board,
\* the selected piece, the faction to move or turnCount; so a move is
\* committed (the board or turnCount changes) only by a square selection made
\* with no ability pending.
C16_PendingAbilityFreezesMove ==
  \A sq \in ClickSquares :
    /\ selectedAbility # Null
         => ~ENABLED (/\ handleSquareClick(sq[1], sq[2])
                      /\ ~UNCHANGED <<board, selectedPiece, currentPlayer,
                                      turnCount>>)
    /\ ~ENABLED (/\ selectedAbility # Null
                 /\ handleSquareClick(sq[1], sq[2])
                 /\ \/ board' # board
                    \/ turnCount' # turnCount)

\* An ability is pending, the selected piece has a legal destination within
\* reach, and selecting that destination is taken by the ability branch: the
\* board and the turn stay.
C16_Witness ==
  /\ selectedAbility # Null
  /\ \E sq \in ClickSquares :
       /\ isValidMove(selectedPiece, [row |-> sq[1], col |-> sq[2]],
                      selectedPiece.piece)
       /\ ENABLED (/\ handleSquareClick(sq[1], sq[2])
                   /\ UNCHANGED <<board, selectedPiece, currentPlayer,
                                  turnCount>>)

\* What a successful activation of the ability on the square key makes of the
\* status set that the ability named own writes.
C17_After(set, ability, own, key) ==
  IF ability = own THEN set \cup {key} ELSE set

C18_RevealAbilities ==
  {"mass_detection", "reveal_hidden", "detection_pulse", "area_scan"}

\* The squares next to (row, col), diagonals included.
C18_Adjacent(row, col) ==
  {sq \in Squares : /\ Abs(sq[1] - row) <= 1
                    /\ Abs(sq[2] - col) <= 1
                    /\ sq # <<row, col>>}

\* C18: after a reveal ability (mass_detection, reveal_hidden,
\* detection_pulse, area_scan) has been activated with success by a piece on
\* its own square (the piece is selected, the ability pending, the pool
\* covers the cost), no square next to that piece is in the concealed set.
C18_RevealClearsAdjacent ==
  \A sq \in ScanSquares :
    (/\ selectedAbility \in C18_RevealAbilities
     /\ OwnPieceAt(sq[1], sq[2])
     /\ selectedPiece.row = sq[1] /\ selectedPiece.col = sq[2]
     /\ energyPoints[currentPlayer] >= C10_Cost(selectedAbility))
    => ~ENABLED (/\ handleSquareClick(sq[1], sq[2])
                 /\ C18_Adjacent(sq[1], sq[2]) \cap hiddenPieces' # {})

\* C19: an ability takes effect only on a piece whose PIECES entry lists it:
\* no square selection made with an ability pending adds the selected square
\* to a status set or debits a pool unless the piece on that square has the
\* ability among its abilities.
C19_AbilityBelongsToTarget ==
  \A sq \in ClickSquares :
    (/\ selectedAbility # Null
     /\ board[sq[1]][sq[2]] # Null
     /\ selectedAbility \notin PIECES[board[sq[1]][sq[2]]])
    => ~ENABLED (/\ handleSquareClick(sq[1], sq[2])
                 /\ \/ energyPoints' # energyPoints
                    \/ hiddenPieces' # hiddenPieces
                    \/ taggedPieces' # taggedPieces
                    \/ mutatedPieces' # mutatedPieces)

\* C20: the mutated flag lasts one turn: a square put in the mutated set is
\* out of it once turnCount has passed the turn it was put in. Squares enter
\* the set only during a turn, so the claim is that the square selection
\* which commits a move and advances turnCount leaves the mutated set empty.
C20_MutationLastsOneTurn ==
  \A sq \in ClickSquares :
    MoveCommits(sq[1], sq[2])
      => ~ENABLED (/\ handleSquareClick(sq[1], sq[2])
                   /\ turnCount' = turnCount + 1
                   /\ mutatedPieces' # {})

\* The number of occupied cells of the board b.
C21_Total(b) ==
  Cardinality({sq \in Squares : b[sq[1]][sq[2]] # Null})

\* C21: a committed move never takes the moving piece off the board: after
\* the square selection that commits a move the destination holds the piece
\* that was selected, every square other than origin and destination is as
\* it was, and the number of pieces is one less when the destination held a
\* different piece (a square other than the origin, occupied) and the same
\* otherwise.
C21_MoveKeepsMovingPiece ==
  \A sq \in ClickSquares :
    MoveCommits(sq[1], sq[2])
      => ~ENABLED (/\ handleSquareClick(sq[1], sq[2])
                   /\ ~(/\ board'[sq[1]][sq[2]] = selectedPiece.piece
                        /\ \A other \in Squares :
                             (/\ other # sq
                              /\ other # <<selectedPiece.row, selectedPiece.col>>)
                             => board'[other[1]][other[2]]
                                  = board[other[1]][other[2]]
                        /\ C21_Total(board')
                             = IF /\ board[sq[1]][sq[2]] # Null
                                  /\ sq # <<selectedPiece.row, selectedPiece.col>>
                               THEN C21_Total(board) - 1
                               ELSE C21_Total(board)))

\* C22: in every reachable state where a piece is selected, the selected
\* square holds the piece code recorded in the selection, and that piece is
\* of the faction to move: a "w" code when white is to move, a "b" code when
\* black is.
C22_SelectionNeverStale ==
  selectedPiece # NoSelection =>
    /\ selectedPiece.piece \in PieceCodes
    /\ <<selectedPiece.row, selectedPiece.col>> \in Squares
    /\ board[selectedPiece.row][selectedPiece.col] = selectedPiece.piece
    /\ Chars[selectedPiece.piece][1] = (IF currentPlayer = "white" THEN "w" ELSE "b")

\* After two committed moves, one of them a capture, the defender has
\* selected a piece again.
C22_Witness ==
  /\ turnCount = 3
  /\ board # INITIAL_BOARD
  /\ \E sq \in Squares : INITIAL_BOARD[sq[1]][sq[2]] # Null /\ board[sq[1]][sq[2]] = Null
  /\ selectedPiece # NoSelection
  /\ board[selectedPiece.row][selectedPiece.col] = selectedPiece.piece

\* C23: in every reachable state where an ability is pending a piece is
\* selected and the ability is one of those PIECES lists for the selected
\* piece; and no square selection that changes the faction to move is made
\* with an ability pending or leaves one pending.
C23_PendingAbilityOfSelectedPiece ==
  /\ selectedAbility # Null
       => /\ selectedPiece # NoSelection
          /\ selectedPiece.piece \in PieceCodes
          /\ selectedAbility \in PIECES[selectedPiece.piece]
  /\ \A sq \in ClickSquares :
       ~ENABLED (/\ handleSquareClick(sq[1], sq[2])
                 /\ currentPlayer' # currentPlayer
                 /\ \/ selectedAbility # Null
                    \/ selectedAbility' # Null)

\* The turn has changed and the pathogen has a piece selected and one of its
\* abilities pending.
C23_Witness ==
  /\ turnCount = 2
  /\ currentPlayer = "black"
  /\ selectedPiece # NoSelection
  /\ selectedAbility # Null
  /\ selectedAbility \in PIECES[selectedPiece.piece]

\* C24: the game starts with no piece selected, no ability pending, the
\* defender (white) to move and turnCount = 1; and in every reachable state
\* turnCount is at least 1 and the faction to move is the defender exactly
\* when turnCount is odd.
C24_InitialStateAndParity ==
  /\ selectedPiece = NoSelection
  /\ selectedAbility = Null
  /\ currentPlayer = "white"
  /\ turnCount = 1
  /\ [](/\ turnCount >= 1
        /\ currentPlayer \in {"white", "black"}
        /\ currentPlayer = "white" <=> turnCount % 2 = 1)

\* Three moves have been committed: the pathogen is to move at the even
\* turn 4.
C24_Witness ==
  /\ turnCount = 4
  /\ currentPlayer = "black"
  /\ board # INITIAL_BOARD

====
